---- MODULE Spec2Model ----
(***************************************************************************)
(* Delivery-status reconciliation of wa_api_back.                          *)
(*                                                                         *)
(* src/controllers/updateStatus.js registers, per WhatsApp instance, two   *)
(* listeners ('messages.update' and 'message-receipt.update').  Each       *)
(* listener is an async function over a batch of updates; it resolves the  *)
(* transport's message id to a media_messages row (getDatabaseId), writes  *)
(* the row's message_status and fans the timestamp out into report_time    *)
(* (updateMessageStatusInDB).  The report_time schema is the one of        *)
(* src/migrate-report-time.js.  The sessions of the users (login_history)  *)
(* are those of controllers/sign.js and of the session middleware.         *)
(*                                                                         *)
(* Strings whose content the code inspects (recipient lists, WhatsApp      *)
(* message ids) are sequences of one-character strings, so that split(),   *)
(* trim(), = and LIKE '%..%' are computed, not assumed.  A listener        *)
(* invocation is a process that takes one step per awaited store call:     *)
(* JavaScript runs the code between two awaits without interruption.       *)
(***************************************************************************)
EXTENDS Integers, Sequences, FiniteSets, TLC

(***************************************************************************)
(* Bounds of the model.                                                    *)
(***************************************************************************)
\* The clock NOW() runs from StartTime to MaxTime.
MaxTime == 4
\* Updates in one emitted batch.
MaxBatch == 2
\* Updates dispatched in one behaviour, over all batches.
MaxEvents == 2
\* Rows of login_history in one behaviour: the logins that reach the INSERT.
MaxSessions == 2

\* Listener invocations that can be in flight at once.
Procs == {1, 2}

(***************************************************************************)
(* Values.                                                                 *)
(***************************************************************************)
\* SQL NULL in a VARCHAR column / a JavaScript null id.
Null == <<"NULL">>
\* SQL NULL in a TIMESTAMP NULL column.
NullTime == 0
\* NOW() when the listeners are registered; the rows of Init are older.
StartTime == 3

\* const MESSAGE_STATUS
MESSAGE_STATUS == {"pending", "sent", "delivered", "read", "failed"}

TimeFields == {"initiated_time", "sent_time", "delivered_time", "read_time", "failed_time"}

Instances == {"I1", "I2"}
Streams == {"messages.update", "message-receipt.update"}

\* WhatsApp message ids carried by the updates.
IdAB == <<"A", "B">>
IdB == <<"B">>
IdC == <<"C">>
EventIds == {IdAB, IdB, IdC}

\* Recipient lists of the stored messages.
RecABC == <<"a", ",", " ", "b", ",", "c">>
RecA == <<"a">>
RecBA == <<"b", ",", "a">>

(***************************************************************************)
(* String functions.                                                       *)
(***************************************************************************)
\* col LIKE '%t%' (and String.includes): t occurs in s as a contiguous run.
Contains(s, t) ==
    \E i \in 0..(Len(s) - Len(t)) : SubSeq(s, i + 1, i + Len(t)) = t

RECURSIVE SplitAcc(_, _, _)
SplitAcc(s, cur, acc) ==
    IF s = <<>> THEN Append(acc, cur)
    ELSE IF Head(s) = "," THEN SplitAcc(Tail(s), <<>>, Append(acc, cur))
    ELSE SplitAcc(Tail(s), Append(cur, Head(s)), acc)

\* String.prototype.split(','): the pieces between the commas, blanks kept.
Split(s) == SplitAcc(s, <<>>, <<>>)

RECURSIVE TrimLeft(_)
TrimLeft(s) ==
    IF s # <<>> /\ Head(s) = " " THEN TrimLeft(Tail(s)) ELSE s

RECURSIVE TrimRight(_)
TrimRight(s) ==
    IF s # <<>> /\ s[Len(s)] = " " THEN TrimRight(SubSeq(s, 1, Len(s) - 1)) ELSE s

\* String.prototype.trim()
Trim(s) == TrimRight(TrimLeft(s))

(***************************************************************************)
(* Updates the transport emits.                                            *)
(***************************************************************************)
\* update.update.status: a number, the string 'PENDING', or undefined.
Num(n) == [t |-> "num", n |-> n, s |-> ""]
Str(s) == [t |-> "str", n |-> 0, s |-> s]
Undefined == [t |-> "undefined", n |-> 0, s |-> ""]

StatusCodes ==
    {Num(1), Num(2), Num(3), Num(4), Num(-1), Num(5), Str("PENDING"), Undefined}

ReceiptTypes == {"read", "delivered", "played"}

\* One element of a 'messages.update' batch.  hasKey: update.key is set;
\* hasPayload: update.update is set.
StatusUpdates ==
    [hasKey : {TRUE}, id : EventIds, hasPayload : {TRUE}, status : StatusCodes,
     type : {""}]
    \cup [hasKey : {FALSE}, id : {IdC}, hasPayload : {TRUE}, status : {Num(3)},
          type : {""}]
    \cup [hasKey : {TRUE}, id : {IdC}, hasPayload : {FALSE}, status : {Undefined},
          type : {""}]

\* One element of a 'message-receipt.update' batch.  hasPayload:
\* update.receipt is set.
ReceiptUpdates ==
    [hasKey : {TRUE}, id : EventIds, hasPayload : {TRUE}, status : {Undefined},
     type : ReceiptTypes]
    \cup [hasKey : {FALSE}, id : {IdC}, hasPayload : {TRUE}, status : {Undefined},
          type : {"read"}]
    \cup [hasKey : {TRUE}, id : {IdC}, hasPayload : {FALSE}, status : {Undefined},
          type : {""}]

UpdatesOf(stream) ==
    IF stream = "messages.update" THEN StatusUpdates ELSE ReceiptUpdates

\* The updates drawn under concurrent delivery: well-formed ones, of three
\* statuses.
ConcUpdatesOf(stream) ==
    {u \in UpdatesOf(stream) :
        /\ u.hasKey /\ u.hasPayload
        /\ u.status \in {Num(2), Num(3), Undefined}
        /\ u.type \in {"", "read"}
        /\ (stream = "messages.update" => u.status # Undefined)}

NoUpdate ==
    [hasKey |-> FALSE, id |-> Null, hasPayload |-> FALSE, status |-> Undefined,
     type |-> ""]

(***************************************************************************)
(* State.                                                                  *)
(***************************************************************************)
VARIABLES
    media_messages, \* table media_messages: row id -> row (rows are never deleted)
    report_time,    \* table report_time: row id (AUTO_INCREMENT) -> row
    now,            \* the store's clock, NOW()
    emitted,        \* updates handed to the listeners so far
    h,              \* listener invocations: the locals of each async callback
    touched,        \* history: the tables a listener changed for its current update
    login_history,  \* table login_history: row id (AUTO_INCREMENT) -> row
    locks,          \* the transaction that holds the row locks of a user's sessions
    tokens,         \* the JWTs that loginCustomer has signed
    req,            \* logins and logouts in flight: the locals of each async handler
    checked         \* history: the last request a session check decided, and how

vars ==
    <<media_messages, report_time, now, emitted, h, touched,
      login_history, locks, tokens, req, checked>>

\* The state of the reconciliation and the state of the sessions.
coreVars == <<media_messages, report_time, emitted, h, touched>>
sessionVars == <<login_history, locks, tokens, req, checked>>

MessageRow(inst, rec, wid, st, at) ==
    [instance_id |-> inst, recipient |-> rec, whatsapp_message_id |-> wid,
     message_status |-> st, created_at |-> at]

\* The columns of CREATE TABLE report_time that the code writes.
ReportRow(inst, rec, wid, at) ==
    [instance_id |-> inst, recipient |-> rec, whatsapp_message_id |-> wid,
     initiated_time |-> NullTime, sent_time |-> NullTime,
     delivered_time |-> NullTime, read_time |-> NullTime,
     failed_time |-> NullTime, created_at |-> at]

NoMsg == [whatsapp_message_id |-> Null, instance_id |-> "", recipient |-> Null]

\* A listener that is not running.  tier, result, error, repeat, oldStatus
\* and passed are history: how getDatabaseId resolved the current update,
\* what the listener logged for it, whether it repeats the update that the
\* same batch held just before it and that was reconciled with success, the
\* message_status the status write replaced, and the status the engine was
\* called with.
Idle ==
    [pc |-> "idle", instanceId |-> "", stream |-> "", left |-> 0,
     update |-> NoUpdate, messageId |-> Null,
     dbId |-> 0, newStatus |-> "", affectedRows |-> 0, msg |-> NoMsg,
     timeField |-> "", recipients |-> <<>>, ri |-> 0, rowId |-> 0,
     result |-> "none", error |-> "", tier |-> "none", repeat |-> FALSE,
     oldStatus |-> "", passed |-> ""]

\* The messages the sending component has stored before the listeners run.
InitialMessages ==
    << MessageRow("I1", RecABC, IdAB, "sent", 1),
       MessageRow("I1", RecA, Null, "pending", 1),
       MessageRow("I1", RecBA, Null, "pending", 2),
       MessageRow("I2", RecA, Null, "pending", 1) >>

\* The same messages, the single-recipient one of I1 stored last.
InitialMessagesAlt ==
    [InitialMessages EXCEPT ![2].created_at = 2, ![3].created_at = 1]

\* The registered user, the values of the x-device-id header ("" when the
\* header is missing) and the paths of the requests.
Users == {"u1"}
Devices == {"d1", "d2"}
NoDevice == ""
excludedPaths == {"/login", "/logout", "/check-session"}
Paths == {"/logout", "/current-user"}

\* The payload of a JWT; NoToken when the request has no Authorization.
Token(u, d, id) == [userId |-> u, deviceId |-> d, sessionId |-> id]
NoToken == Token("", "", 0)

\* INSERT INTO login_history (user_id, device_id, login_time, is_active,
\* logout_time) VALUES (?, ?, CURRENT_TIMESTAMP(), true, NULL).  committed
\* tells whether the transaction that inserted the row has committed: other
\* connections do not see the row before.
SessionRow(u, d, t) ==
    [user_id |-> u, device_id |-> d, login_time |-> t, is_active |-> TRUE,
     logout_time |-> NullTime, committed |-> FALSE]

\* No session check has run.
NoCheck ==
    [op |-> "", token |-> NoToken, deviceId |-> NoDevice, path |-> "", res |-> "",
     latest |-> 0]

\* A handler that is not running.  found is activeSessions.length > 0,
\* time the CURRENT_TIMESTAMP() of the UPDATE inside the transaction.
NoRequest ==
    [pc |-> "idle", op |-> "", userId |-> "", deviceId |-> NoDevice,
     found |-> FALSE, insertId |-> 0, time |-> NullTime, res |-> ""]

Init ==
    /\ media_messages \in {InitialMessages, InitialMessagesAlt}
    /\ report_time = <<>>
    /\ now = StartTime
    /\ emitted = 0
    /\ h = [p \in Procs |-> Idle]
    /\ touched = [p \in Procs |-> {}]
    /\ login_history = <<>>
    /\ locks = [u \in Users |-> 0]
    /\ tokens = {}
    /\ req = [p \in Procs |-> NoRequest]
    /\ checked = NoCheck

MsgIds == DOMAIN media_messages
RowIds == DOMAIN report_time

(***************************************************************************)
(* Status Normalizer.                                                      *)
(***************************************************************************)
\* Variant: the default case gives failed.
StatusOf_DefaultFailed(code) ==
    IF code.t = "str" /\ code.s = "PENDING" THEN "pending"
    ELSE IF code.t = "num" /\ code.n = 1 THEN "pending"
    ELSE IF code.t = "num" /\ code.n = 2 THEN "sent"
    ELSE IF code.t = "num" /\ code.n = 3 THEN "delivered"
    ELSE IF code.t = "num" /\ code.n = 4 THEN "read"
    ELSE IF code.t = "num" /\ code.n = -1 THEN "failed"
    ELSE "failed"

\* switch (update.update.status) of the 'messages.update' listener
StatusOf(code) ==
    IF code.t = "str" /\ code.s = "PENDING" THEN "pending"
    ELSE IF code.t = "num" /\ code.n = 1 THEN "pending"
    ELSE IF code.t = "num" /\ code.n = 2 THEN "sent"
    ELSE IF code.t = "num" /\ code.n = 3 THEN "delivered"
    ELSE IF code.t = "num" /\ code.n = 4 THEN "read"
    ELSE IF code.t = "num" /\ code.n = -1 THEN "failed"
    ELSE "sent"

\* Variant: receiptType === 'delivered' ? DELIVERED : READ
ReceiptStatusOf_TestsDelivered(type) ==
    IF type = "delivered" THEN "delivered" ELSE "read"

\* receiptType === 'read' ? READ : DELIVERED
ReceiptStatusOf(type) == IF type = "read" THEN "read" ELSE "delivered"

\* Variant: the status is used as it is passed.
Validate_None(status) == status

\* if (!Object.values(MESSAGE_STATUS).includes(newStatus)) newStatus = SENT
Validate(status) == IF status \in MESSAGE_STATUS THEN status ELSE "sent"

\* Variant: case DELIVERED has no break and falls through to case READ.
TimeFieldOf_MissingBreak(status) ==
    CASE status = "sent" -> "sent_time"
      [] status = "delivered" -> "read_time"
      [] status = "read" -> "read_time"
      [] status = "failed" -> "failed_time"
      [] status = "pending" -> "initiated_time"
      [] OTHER -> ""

\* switch (newStatus) choosing timeField
TimeFieldOf(status) ==
    CASE status = "sent" -> "sent_time"
      [] status = "delivered" -> "delivered_time"
      [] status = "read" -> "read_time"
      [] status = "failed" -> "failed_time"
      [] status = "pending" -> "initiated_time"
      [] OTHER -> ""

(***************************************************************************)
(* Store queries and statements.                                           *)
(***************************************************************************)
\* Variant: the two parameters are bound in the other order, so that no row
\* matches.
ExactRows_ParametersSwapped(mm, inst, id) ==
    {m \in DOMAIN mm : /\ <<mm[m].instance_id>> = id
                       /\ mm[m].whatsapp_message_id # Null
                       /\ mm[m].whatsapp_message_id = <<inst>>}

\* SELECT id FROM media_messages WHERE instance_id = ? AND whatsapp_message_id = ?
ExactRows(mm, inst, id) ==
    {m \in DOMAIN mm : /\ mm[m].instance_id = inst
                       /\ mm[m].whatsapp_message_id # Null
                       /\ mm[m].whatsapp_message_id = id}

\* Variant: the pattern is 'id%', a prefix match.
FlexibleRows_PrefixOnly(mm, inst, id) ==
    {m \in DOMAIN mm : /\ mm[m].instance_id = inst
                       /\ mm[m].whatsapp_message_id # Null
                       /\ Len(id) <= Len(mm[m].whatsapp_message_id)
                       /\ SubSeq(mm[m].whatsapp_message_id, 1, Len(id)) = id}

\* SELECT id FROM media_messages WHERE instance_id = ? AND whatsapp_message_id LIKE '%id%'
FlexibleRows(mm, inst, id) ==
    {m \in DOMAIN mm : /\ mm[m].instance_id = inst
                       /\ mm[m].whatsapp_message_id # Null
                       /\ Contains(mm[m].whatsapp_message_id, id)}

\* ... WHERE instance_id = ? AND message_status = 'pending'
PendingOf(mm, inst) ==
    {m \in DOMAIN mm : mm[m].instance_id = inst /\ mm[m].message_status = "pending"}

\* Variant: the query has no message_status = 'pending' condition.
PendingRows_AnyStatus(mm, inst) ==
    {m \in DOMAIN mm :
        /\ mm[m].instance_id = inst
        /\ \A o \in DOMAIN mm :
              mm[o].instance_id = inst => mm[o].created_at <= mm[m].created_at}

\* Variant: ORDER BY created_at ASC, the oldest pending row first.
PendingRows_Oldest(mm, inst) ==
    {m \in PendingOf(mm, inst) :
        \A o \in PendingOf(mm, inst) : mm[m].created_at <= mm[o].created_at}

\* ... ORDER BY created_at DESC LIMIT 5, of which the code takes row 0: a
\* pending row that no other pending row is newer than.
PendingRows(mm, inst) ==
    {m \in PendingOf(mm, inst) :
        \A o \in PendingOf(mm, inst) : mm[o].created_at <= mm[m].created_at}

\* SELECT id FROM report_time WHERE whatsapp_message_id = ?
ExistingRows(rt, wid) ==
    {r \in DOMAIN rt : rt[r].whatsapp_message_id = wid}

\* SELECT id FROM report_time WHERE instance_id = ? AND recipient = ?
ExistingRecipientRows(rt, inst, rec) ==
    {r \in DOMAIN rt : rt[r].instance_id = inst /\ rt[r].recipient = rec}

\* UNIQUE KEY unique_whatsapp_message_id (whatsapp_message_id): may row `self`
\* (0 for a new row) carry wid?
UniqueOk(rt, self, wid) ==
    \A r \in DOMAIN rt : r # self => rt[r].whatsapp_message_id # wid

\* Variant: ... WHERE whatsapp_message_id = ? AND read_time IS NULL
UpdateReport_FrozenAfterRead(rt, wid, field, t) ==
    [r \in DOMAIN rt |->
        IF rt[r].whatsapp_message_id = wid /\ rt[r].read_time = NullTime
        THEN [rt[r] EXCEPT ![field] = t]
        ELSE rt[r]]

\* UPDATE report_time SET <timeField> = NOW() WHERE whatsapp_message_id = ?
UpdateReport(rt, wid, field, t) ==
    [r \in DOMAIN rt |->
        IF rt[r].whatsapp_message_id = wid THEN [rt[r] EXCEPT ![field] = t]
        ELSE rt[r]]

\* INSERT INTO report_time (instance_id, recipient, whatsapp_message_id,
\* <timeField>, created_at) VALUES (?, ?, ?, NOW(), NOW())
InsertReport(rt, inst, rec, wid, field, t) ==
    Append(rt, [ReportRow(inst, rec, wid, t) EXCEPT ![field] = t])

\* UPDATE report_time SET <timeField> = NOW(), whatsapp_message_id = ? WHERE id = ?
UpdateRecipient(rt, id, wid, field, t) ==
    [rt EXCEPT ![id] = [@ EXCEPT ![field] = t, !.whatsapp_message_id = wid]]

(***************************************************************************)
(* The listeners: sock.ev.on('messages.update' | 'message-receipt.update') *)
(***************************************************************************)
AllIdle == \A q \in Procs : h[q].pc = "idle"

\* The history of a step of listener p: the tables it has changed since it
\* took its current update from the batch.
Track(p) ==
    touched' = [touched EXCEPT ![p] =
        IF h'[p].pc = "idle" \/ (h[p].pc = "loop" /\ h'[p] # h[p]) THEN {}
        ELSE @ \cup (IF media_messages' # media_messages THEN {"media_messages"} ELSE {})
               \cup (IF report_time' # report_time THEN {"report_time"} ELSE {})]

\* The transport emits a batch of n updates on a stream of an instance and
\* the listener registered for it starts.  Invocations are interchangeable:
\* the new one takes the first free slot.
Emit(p) ==
    /\ h[p].pc = "idle"
    /\ \A q \in Procs : q < p => h[q].pc # "idle"
    /\ \E inst \in Instances, stream \in Streams, n \in 1..MaxBatch :
        /\ emitted + n <= MaxEvents
        /\ emitted' = emitted + n
        /\ h' = [h EXCEPT ![p] = [Idle EXCEPT !.pc = "loop", !.instanceId = inst,
                                               !.stream = stream, !.left = n]]
    /\ UNCHANGED <<media_messages, report_time, now>>
    /\ Track(p)
    /\ UNCHANGED sessionVars

\* The update is dropped before getDatabaseId is called.
Malformed(stream, u) ==
    IF stream = "messages.update"
    THEN ~u.hasKey \/ ~u.hasPayload \/ u.status.t = "undefined"
    ELSE ~u.hasKey

\* Variant: updates.forEach(async update => ...), which does not wait for
\* an update before it starts the next.
LoopOn_ForEach(p, updates) ==
    /\ h[p].pc # "idle"
    /\ h[p].left > 0
    /\ \E u \in updates :
        h' = [h EXCEPT ![p] =
                [Idle EXCEPT !.instanceId = h[p].instanceId,
                             !.stream = h[p].stream,
                             !.left = h[p].left - 1,
                             !.update = u,
                             !.messageId = IF u.hasKey THEN u.id ELSE Null,
                             !.pc = IF Malformed(h[p].stream, u) THEN "loop" ELSE "exact",
                             !.result = IF Malformed(h[p].stream, u) THEN "skipped"
                                        ELSE "none"]]
    /\ UNCHANGED <<media_messages, report_time, now, emitted>>
    /\ Track(p)
    /\ UNCHANGED sessionVars

\* for (const update of updates): the next update of the batch, one of
\* updates, up to the first await.
LoopOn(p, updates) ==
    /\ h[p].pc = "loop"
    /\ h[p].left > 0
    /\ \E u \in updates :
        h' = [h EXCEPT ![p] =
                [Idle EXCEPT !.instanceId = h[p].instanceId,
                             !.stream = h[p].stream,
                             !.left = h[p].left - 1,
                             !.update = u,
                             !.repeat = (u = h[p].update /\ h[p].result = "ok"),
                             !.messageId = IF u.hasKey THEN u.id ELSE Null,
                             !.pc = IF Malformed(h[p].stream, u) THEN "loop" ELSE "exact",
                             !.result = IF Malformed(h[p].stream, u) THEN "skipped"
                                        ELSE "none"]]
    /\ UNCHANGED <<media_messages, report_time, now, emitted>>
    /\ Track(p)
    /\ UNCHANGED sessionVars

Loop(p) == LoopOn(p, UpdatesOf(h[p].stream))

LoopConc(p) == LoopOn(p, ConcUpdatesOf(h[p].stream))

\* The batch is exhausted: the async callback returns.
Return(p) ==
    /\ h[p].pc = "loop"
    /\ h[p].left = 0
    /\ h' = [h EXCEPT ![p] = Idle]
    /\ UNCHANGED <<media_messages, report_time, now, emitted>>
    /\ Track(p)
    /\ UNCHANGED sessionVars

\* getDatabaseId returned { found: true, dbId }: the listener computes
\* newStatus and calls updateMessageStatusInDB, which validates it.  The
\* receipt listener does nothing more when update.receipt is missing.
Found(r, dbId, tier) ==
    IF r.stream = "messages.update"
    THEN [r EXCEPT !.dbId = dbId, !.tier = tier, !.pc = "setStatus",
                   !.passed = StatusOf(r.update.status),
                   !.newStatus = Validate(StatusOf(r.update.status))]
    ELSE IF r.update.hasPayload
    THEN [r EXCEPT !.dbId = dbId, !.tier = tier, !.pc = "setStatus",
                   !.passed = ReceiptStatusOf(r.update.type),
                   !.newStatus = Validate(ReceiptStatusOf(r.update.type))]
    ELSE [r EXCEPT !.dbId = dbId, !.tier = tier, !.pc = "loop",
                   !.result = "ignored"]

\* getDatabaseId returned { found: false }: the listener logs and continues.
NotFound(r, tier) ==
    [r EXCEPT !.tier = tier, !.pc = "loop", !.result = "notfound"]

(***************************************************************************)
(* Identity Resolver: getDatabaseId                                        *)
(***************************************************************************)
\* Tier 1, the exact query.  SQL leaves the order of the rows open, so
\* rows[0] is any matching row.
ExactQuery(p) ==
    /\ h[p].pc = "exact"
    /\ LET rows == ExactRows(media_messages, h[p].instanceId, h[p].messageId) IN
        IF rows # {}
        THEN \E m \in rows : h' = [h EXCEPT ![p] = Found(h[p], m, "exact")]
        ELSE h' = [h EXCEPT ![p].pc = "flexible"]
    /\ UNCHANGED <<media_messages, report_time, now, emitted>>
    /\ Track(p)
    /\ UNCHANGED sessionVars

\* Tier 2, the LIKE query.
FlexibleQuery(p) ==
    /\ h[p].pc = "flexible"
    /\ LET rows == FlexibleRows(media_messages, h[p].instanceId, h[p].messageId) IN
        IF rows # {}
        THEN \E m \in rows : h' = [h EXCEPT ![p] = Found(h[p], m, "flexible")]
        ELSE h' = [h EXCEPT ![p].pc = "pending"]
    /\ UNCHANGED <<media_messages, report_time, now, emitted>>
    /\ Track(p)
    /\ UNCHANGED sessionVars

\* Tier 3, the most recent pending message.
PendingQuery(p) ==
    /\ h[p].pc = "pending"
    /\ LET rows == PendingRows(media_messages, h[p].instanceId) IN
        IF rows # {}
        THEN \E m \in rows : h' = [h EXCEPT ![p].pc = "backfill", ![p].dbId = m]
        ELSE h' = [h EXCEPT ![p] = NotFound(h[p], "none")]
    /\ UNCHANGED <<media_messages, report_time, now, emitted>>
    /\ Track(p)
    /\ UNCHANGED sessionVars

\* Variant: ... WHERE id = ? AND whatsapp_message_id IS NULL
SetWhatsappId_IfNull(mm, id, wid) ==
    IF mm[id].whatsapp_message_id = Null
    THEN [mm EXCEPT ![id].whatsapp_message_id = wid]
    ELSE mm

\* UPDATE media_messages SET whatsapp_message_id = ? WHERE id = ?
SetWhatsappId(mm, id, wid) ==
    [mm EXCEPT ![id].whatsapp_message_id = wid]

\* The backfill of the pending message, after which it is returned.
Backfill(p) ==
    /\ h[p].pc = "backfill"
    /\ media_messages' = SetWhatsappId(media_messages, h[p].dbId, h[p].messageId)
    /\ h' = [h EXCEPT ![p] = Found(h[p], h[p].dbId, "pending")]
    /\ UNCHANGED <<report_time, now, emitted>>
    /\ Track(p)
    /\ UNCHANGED sessionVars

(***************************************************************************)
(* Reconciliation Engine: updateMessageStatusInDB                          *)
(***************************************************************************)
\* updateMessageStatusInDB returned; the listener logs the result and goes
\* on with the batch.
Finished(r, result, error) ==
    [r EXCEPT !.pc = "loop", !.result = result, !.error = error]

\* The place of a status in the order pending, sent, delivered, read.
StatusRank(status) ==
    CASE status = "pending" -> 1
      [] status = "sent" -> 2
      [] status = "delivered" -> 3
      [] status = "read" -> 4
      [] OTHER -> 0

\* Variant: the whatsapp_message_id is read first and the status of a
\* message that has none is left alone.
SetMessageStatus_AfterIdCheck(mm, id, status) ==
    IF id \in DOMAIN mm /\ mm[id].whatsapp_message_id # Null
    THEN [mm EXCEPT ![id].message_status = status]
    ELSE mm

\* Variant: ... WHERE id = ? and the status does not go back.
SetMessageStatus_Monotone(mm, id, status) ==
    IF id \in DOMAIN mm /\ StatusRank(status) >= StatusRank(mm[id].message_status)
    THEN [mm EXCEPT ![id].message_status = status]
    ELSE mm

\* Variant: REPLACE INTO media_messages (id, message_status), which puts a
\* new row in the place of the old one.
SetMessageStatus_Replace(mm, id, status) ==
    IF id \in DOMAIN mm
    THEN [mm EXCEPT ![id] = MessageRow(@.instance_id, Null, Null, status, @.created_at)]
    ELSE mm

\* UPDATE media_messages SET message_status = ? WHERE id = ?
SetMessageStatus(mm, id, status) ==
    IF id \in DOMAIN mm THEN [mm EXCEPT ![id].message_status = status] ELSE mm

\* The status write and its affectedRows check (matched rows: the driver
\* connects with FOUND_ROWS).
SetStatus(p) ==
    /\ h[p].pc = "setStatus"
    /\ media_messages' = SetMessageStatus(media_messages, h[p].dbId, h[p].newStatus)
    /\ h' = [h EXCEPT ![p] =
                IF h[p].dbId \in MsgIds
                THEN [h[p] EXCEPT !.pc = "getMessage", !.affectedRows = 1,
                                  !.oldStatus = media_messages[h[p].dbId].message_status]
                ELSE Finished(h[p], "fail", "Message not found")]
    /\ UNCHANGED <<report_time, now, emitted>>
    /\ Track(p)
    /\ UNCHANGED sessionVars

\* SELECT whatsapp_message_id, instance_id, recipient ... WHERE id = ?, the
\* !whatsapp_message_id check and the choice of timeField.
GetMessage(p) ==
    /\ h[p].pc = "getMessage"
    /\ LET m == media_messages[h[p].dbId] IN
        h' = [h EXCEPT ![p] =
                IF m.whatsapp_message_id = Null \/ m.whatsapp_message_id = <<>>
                THEN Finished(h[p], "fail", "No WhatsApp message ID")
                ELSE [h[p] EXCEPT
                        !.msg = [whatsapp_message_id |-> m.whatsapp_message_id,
                                 instance_id |-> m.instance_id,
                                 recipient |-> m.recipient],
                        !.timeField = TimeFieldOf(h[p].newStatus),
                        !.pc = IF TimeFieldOf(h[p].newStatus) = "" THEN "loop"
                               ELSE "checkReport",
                        !.result = IF TimeFieldOf(h[p].newStatus) = "" THEN "ok"
                                   ELSE "none"]]
    /\ UNCHANGED <<media_messages, report_time, now, emitted>>
    /\ Track(p)
    /\ UNCHANGED sessionVars

\* const recipients = recipient ? recipient.split(',') : []
RecipientsOf(recipient) ==
    IF recipient = Null \/ recipient = <<>> THEN <<>> ELSE Split(recipient)

\* The check for a report_time row of this whatsapp_message_id.
CheckReport(p) ==
    /\ h[p].pc = "checkReport"
    /\ LET recipients == RecipientsOf(h[p].msg.recipient) IN
        h' = [h EXCEPT ![p] =
                IF ExistingRows(report_time, h[p].msg.whatsapp_message_id) # {}
                THEN [h[p] EXCEPT !.pc = "updateReport"]
                ELSE IF Len(recipients) > 0
                THEN [h[p] EXCEPT !.recipients = recipients, !.ri = 1,
                                  !.pc = "checkRecipient"]
                ELSE Finished(h[p], "ok", "")]
    /\ UNCHANGED <<media_messages, report_time, now, emitted>>
    /\ Track(p)
    /\ UNCHANGED sessionVars

\* A row exists for the whatsapp_message_id: its timestamp is written.
UpdateExisting(p) ==
    /\ h[p].pc = "updateReport"
    /\ report_time' = UpdateReport(report_time, h[p].msg.whatsapp_message_id,
                                   h[p].timeField, now)
    /\ h' = [h EXCEPT ![p] = Finished(h[p], "ok", "")]
    /\ UNCHANGED <<media_messages, now, emitted>>
    /\ Track(p)
    /\ UNCHANGED sessionVars

\* for (const singleRecipient of recipients): the check for a row of this
\* recipient; existingRecipientRows[0] is any matching row.
CheckRecipient(p) ==
    /\ h[p].pc = "checkRecipient"
    /\ LET rows == ExistingRecipientRows(report_time, h[p].msg.instance_id,
                                         h[p].recipients[h[p].ri]) IN
        IF rows = {}
        THEN h' = [h EXCEPT ![p].pc = "insert"]
        ELSE \E r \in rows : h' = [h EXCEPT ![p].pc = "updateRecipient", ![p].rowId = r]
    /\ UNCHANGED <<media_messages, report_time, now, emitted>>
    /\ Track(p)
    /\ UNCHANGED sessionVars

\* The end of one iteration of the recipient loop.
NextRecipient(r) ==
    IF r.ri < Len(r.recipients)
    THEN [r EXCEPT !.ri = r.ri + 1, !.rowId = 0, !.pc = "checkRecipient"]
    ELSE Finished(r, "ok", "")

\* The INSERT of a row for the recipient; a duplicate whatsapp_message_id
\* throws, and the catch block returns { success: false }.
InsertRecipient(p) ==
    /\ h[p].pc = "insert"
    /\ IF UniqueOk(report_time, 0, h[p].msg.whatsapp_message_id)
       THEN /\ report_time' = InsertReport(report_time, h[p].msg.instance_id,
                                           h[p].recipients[h[p].ri],
                                           h[p].msg.whatsapp_message_id,
                                           h[p].timeField, now)
            /\ h' = [h EXCEPT ![p] = NextRecipient(h[p])]
       ELSE /\ report_time' = report_time
            /\ h' = [h EXCEPT ![p] = Finished(h[p], "fail", "ER_DUP_ENTRY")]
    /\ UNCHANGED <<media_messages, now, emitted>>
    /\ Track(p)
    /\ UNCHANGED sessionVars

\* The UPDATE of the recipient's row, which also moves it to this
\* whatsapp_message_id.
UpdateRecipientRow(p) ==
    /\ h[p].pc = "updateRecipient"
    /\ IF UniqueOk(report_time, h[p].rowId, h[p].msg.whatsapp_message_id)
       THEN /\ report_time' = UpdateRecipient(report_time, h[p].rowId,
                                              h[p].msg.whatsapp_message_id,
                                              h[p].timeField, now)
            /\ h' = [h EXCEPT ![p] = NextRecipient(h[p])]
       ELSE /\ report_time' = report_time
            /\ h' = [h EXCEPT ![p] = Finished(h[p], "fail", "ER_DUP_ENTRY")]
    /\ UNCHANGED <<media_messages, now, emitted>>
    /\ Track(p)
    /\ UNCHANGED sessionVars

\* The recipient loop as a function: the tables report_time it can end
\* with, run from recipient i on with no store failure but those of the
\* unique key, every statement at time t.
RECURSIVE FanOut(_, _, _, _, _, _)
FanOut(rt, msg, recipients, i, field, t) ==
    IF i > Len(recipients) THEN {rt}
    ELSE LET rows == ExistingRecipientRows(rt, msg.instance_id, recipients[i]) IN
         IF rows = {}
         THEN IF UniqueOk(rt, 0, msg.whatsapp_message_id)
              THEN FanOut(InsertReport(rt, msg.instance_id, recipients[i],
                                       msg.whatsapp_message_id, field, t),
                          msg, recipients, i + 1, field, t)
              ELSE {rt}
         ELSE UNION {IF UniqueOk(rt, r, msg.whatsapp_message_id)
                     THEN FanOut(UpdateRecipient(rt, r, msg.whatsapp_message_id, field, t),
                                 msg, recipients, i + 1, field, t)
                     ELSE {rt} : r \in rows}

\* if (timeField) { ... } of updateMessageStatusInDB as a function, for the
\* message columns msg read by getMessageQuery.
Timeline(rt, msg, field, t) ==
    IF field = "" THEN {rt}
    ELSE IF ExistingRows(rt, msg.whatsapp_message_id) # {}
    THEN {UpdateReport(rt, msg.whatsapp_message_id, field, t)}
    ELSE FanOut(rt, msg, RecipientsOf(msg.recipient), 1, field, t)

(***************************************************************************)
(* Store failures and the clock.                                           *)
(***************************************************************************)
ResolverPcs == {"exact", "flexible", "pending", "backfill"}
EnginePcs ==
    {"setStatus", "getMessage", "checkReport", "updateReport", "checkRecipient",
     "insert", "updateRecipient"}

\* Variant: no catch block; the rejection ends the listener, which drops
\* the rest of its batch.
StoreError_Unhandled(p) ==
    /\ h[p].pc \in ResolverPcs \cup EnginePcs
    /\ h' = [h EXCEPT ![p] = Idle]
    /\ UNCHANGED <<media_messages, report_time, now, emitted>>
    /\ Track(p)
    /\ UNCHANGED sessionVars

\* A store call throws (connectivity, timeout).  The statement has no
\* effect.  getDatabaseId's catch returns { found: false }, the engine's
\* catch returns { success: false, error }.
StoreError(p) ==
    /\ h[p].pc \in ResolverPcs \cup EnginePcs
    /\ h' = [h EXCEPT ![p] =
                IF h[p].pc \in ResolverPcs THEN NotFound(h[p], "error")
                ELSE Finished(h[p], "fail", "store error")]
    /\ UNCHANGED <<media_messages, report_time, now, emitted>>
    /\ Track(p)
    /\ UNCHANGED sessionVars

\* Time passes.
Tick ==
    /\ now < MaxTime
    /\ now' = now + 1
    /\ UNCHANGED coreVars
    /\ UNCHANGED sessionVars

\* One step of a running listener after it took an update from the batch.
Work(p) ==
    \/ Return(p)
    \/ ExactQuery(p)
    \/ FlexibleQuery(p)
    \/ PendingQuery(p)
    \/ Backfill(p)
    \/ SetStatus(p)
    \/ GetMessage(p)
    \/ CheckReport(p)
    \/ UpdateExisting(p)
    \/ CheckRecipient(p)
    \/ InsertRecipient(p)
    \/ UpdateRecipientRow(p)
    \/ StoreError(p)

\* Sequential delivery: a batch is emitted when no listener is running.
EmitSeq(p) == AllIdle /\ Emit(p)

Next ==
    \/ Tick
    \/ \E p \in Procs : EmitSeq(p) \/ Loop(p) \/ Work(p)

Spec == Init /\ [][Next]_vars

\* Sequential delivery with the scheduling of the event loop: a listener
\* whose awaited store call has settled (returned or thrown) is resumed.
FairSpec == Spec /\ \A p \in Procs : WF_vars(Loop(p) \/ Work(p))

\* The statuses a caller of the exported updateMessageStatusInDB passes: the
\* five of MESSAGE_STATUS and one that is none of them.
PassedStatuses == MESSAGE_STATUS \cup {"played"}

\* updateMessageStatusInDB(messageId, newStatus) called by another module,
\* up to its first await: the status is validated.  messageId is the id of
\* a message or an id no message has.
Direct(p) ==
    /\ AllIdle
    /\ \A q \in Procs : q < p => h[q].pc # "idle"
    /\ emitted < MaxEvents
    /\ emitted' = emitted + 1
    /\ \E id \in MsgIds \cup {Len(media_messages) + 1}, status \in PassedStatuses :
        h' = [h EXCEPT ![p] = [Idle EXCEPT !.pc = "setStatus", !.dbId = id,
                                               !.passed = status,
                                               !.newStatus = Validate(status)]]
    /\ UNCHANGED <<media_messages, report_time, now>>
    /\ Track(p)
    /\ UNCHANGED sessionVars

\* Sequential delivery, the engine also being called directly.
NextDirect ==
    \/ Next
    \/ \E p \in Procs : Direct(p)

SpecDirect == Init /\ [][NextDirect]_vars

(***************************************************************************)
(* The migration script: migrate-report-time.js                            *)
(***************************************************************************)
\* switch (message.message_status.toLowerCase()) choosing statusField
StatusFieldOf(status) ==
    CASE status = "sent" -> "sent_time"
      [] status = "delivered" -> "delivered_time"
      [] status = "read" -> "read_time"
      [] status = "failed" -> "failed_time"
      [] OTHER -> "initiated_time"

\* ... WHERE whatsapp_message_id IS NOT NULL AND whatsapp_message_id != ''
MessagesToMigrate(mm) ==
    {m \in DOMAIN mm : mm[m].whatsapp_message_id # Null /\ mm[m].whatsapp_message_id # <<>>}

\* INSERT INTO report_time (instance_id, recipient, whatsapp_message_id,
\* initiated_time, <statusField>, created_at) VALUES (...) ON DUPLICATE KEY
\* UPDATE initiated_time = VALUES(initiated_time), <statusField> =
\* VALUES(<statusField>): a row that holds the whatsapp_message_id is
\* updated, and no row is made.
MigrateInsert(rt, msg, rec) ==
    IF UniqueOk(rt, 0, msg.whatsapp_message_id)
    THEN Append(rt, [ReportRow(msg.instance_id, rec, msg.whatsapp_message_id, msg.created_at)
                        EXCEPT !.initiated_time = msg.created_at,
                               ![StatusFieldOf(msg.message_status)] = msg.created_at])
    ELSE [r \in DOMAIN rt |->
            IF rt[r].whatsapp_message_id = msg.whatsapp_message_id
            THEN [rt[r] EXCEPT !.initiated_time = msg.created_at,
                               ![StatusFieldOf(msg.message_status)] = msg.created_at]
            ELSE rt[r]]

\* for (const recipient of recipients): blank ones are skipped, the others
\* are trimmed.
RECURSIVE MigrateRecipients(_, _, _, _)
MigrateRecipients(rt, msg, recipients, i) ==
    IF i > Len(recipients) THEN rt
    ELSE IF Trim(recipients[i]) = <<>>
    THEN MigrateRecipients(rt, msg, recipients, i + 1)
    ELSE MigrateRecipients(MigrateInsert(rt, msg, Trim(recipients[i])),
                           msg, recipients, i + 1)

\* for (const message of messages), in the order the SELECT returned them.
RECURSIVE MigrateMessages(_, _, _, _)
MigrateMessages(rt, mm, order, k) ==
    IF k > Len(order) THEN rt
    ELSE MigrateMessages(MigrateRecipients(rt, mm[order[k]],
                                           Split(mm[order[k]].recipient), 1),
                         mm, order, k + 1)

\* SELECT r.id, m.created_at FROM report_time r JOIN media_messages m ON
\* r.whatsapp_message_id = m.whatsapp_message_id WHERE r.initiated_time IS NULL
RecordsToUpdate(rt, mm) ==
    {<<r, m>> \in (DOMAIN rt) \X (DOMAIN mm) :
        /\ rt[r].initiated_time = NullTime
        /\ mm[m].whatsapp_message_id = rt[r].whatsapp_message_id}

\* migrateReportTime: the tables it can leave.  Every message that has a
\* whatsapp_message_id is migrated, in the order the SELECT returns them
\* (it has no ORDER BY: any), then UPDATE report_time SET initiated_time = ?
\* WHERE id = ? runs for each record of the join (for a row joined to
\* several messages the last of the updates stands, any of them).
migrateReportTime(rt, mm) ==
    LET ids == MessagesToMigrate(mm)
        orders == {o \in [1..Cardinality(ids) -> ids] :
                      \A i, j \in DOMAIN o : i # j => o[i] # o[j]}
        secondPass(rt1) ==
            LET recs == RecordsToUpdate(rt1, mm)
                picks == {f \in [DOMAIN rt1 -> DOMAIN mm] :
                             \A r \in DOMAIN rt1 :
                                IF \E m \in DOMAIN mm : <<r, m>> \in recs
                                THEN <<r, f[r]>> \in recs
                                ELSE f[r] = 1} IN
            {[r \in DOMAIN rt1 |->
                 IF <<r, pick[r]>> \in recs
                 THEN [rt1[r] EXCEPT !.initiated_time = mm[pick[r]].created_at]
                 ELSE rt1[r]] : pick \in picks} IN
    UNION {secondPass(MigrateMessages(rt, mm, order, 1)) : order \in orders}

\* The script is run while no listener is.
Migrate(p) ==
    /\ AllIdle
    /\ \A q \in Procs : q < p => h[q].pc # "idle"
    /\ report_time' \in migrateReportTime(report_time, media_messages)
    /\ h' = [h EXCEPT ![p] = [Idle EXCEPT !.pc = "migrated", !.stream = "migrate"]]
    /\ UNCHANGED <<media_messages, now, emitted>>
    /\ Track(p)
    /\ UNCHANGED sessionVars

\* The script is run a second time, right after its first run.
MigrateAgain(p) ==
    /\ h[p].pc = "migrated"
    /\ report_time' \in migrateReportTime(report_time, media_messages)
    /\ h' = [h EXCEPT ![p].pc = "migratedTwice"]
    /\ UNCHANGED <<media_messages, now, emitted>>
    /\ Track(p)
    /\ UNCHANGED sessionVars

\* The script ends.
MigrateExit(p) ==
    /\ h[p].pc \in {"migrated", "migratedTwice"}
    /\ h' = [h EXCEPT ![p] = Idle]
    /\ UNCHANGED <<media_messages, report_time, now, emitted>>
    /\ Track(p)
    /\ UNCHANGED sessionVars

\* Sequential delivery, the migration script being run between batches.
NextMigrate ==
    \/ Next
    \/ \E p \in Procs : Migrate(p) \/ MigrateAgain(p) \/ MigrateExit(p)

SpecMigrate == Init /\ [][NextMigrate]_vars

\* Concurrent delivery: the emitter does not wait for the async listeners,
\* so a second batch can be emitted while the first is being processed.
NextConc ==
    \/ Tick
    \/ \E p \in Procs : Emit(p) \/ LoopConc(p) \/ Work(p)

SpecConc == Init /\ [][NextConc]_vars

(***************************************************************************)
(* Sessions: createSession, loginCustomer, logoutCustomer, checkSession    *)
(* (controllers/sign.js) and validateSession (sessionMiddleware.js).       *)
(* The store is InnoDB at its default isolation: SELECT ... FOR UPDATE     *)
(* locks the sessions of the user until the transaction ends, a statement  *)
(* that needs one of these rows waits, and a plain SELECT reads what has   *)
(* been committed.                                                         *)
(***************************************************************************)
\* ... WHERE user_id = ? AND is_active = true
ActiveSessions(lh, u) ==
    {i \in DOMAIN lh : lh[i].committed /\ lh[i].user_id = u /\ lh[i].is_active}

\* ... ORDER BY login_time DESC: sessions[0] is a row of the greatest
\* login_time, any of them.
LatestSessions(lh, u) ==
    {i \in ActiveSessions(lh, u) :
        \A j \in ActiveSessions(lh, u) : lh[j].login_time <= lh[i].login_time}

\* UPDATE login_history SET is_active = false, logout_time =
\* CURRENT_TIMESTAMP() WHERE user_id = ? AND is_active = true
Deactivate(lh, u, t) ==
    [i \in DOMAIN lh |->
        IF i \in ActiveSessions(lh, u)
        THEN [lh[i] EXCEPT !.is_active = FALSE, !.logout_time = t]
        ELSE lh[i]]

\* UPDATE ... WHERE user_id = ? AND (is_active = true OR logout_time IS NULL)
ForceDeactivate(lh, u, t) ==
    [i \in DOMAIN lh |->
        IF /\ lh[i].committed /\ lh[i].user_id = u
           /\ (lh[i].is_active \/ lh[i].logout_time = NullTime)
        THEN [lh[i] EXCEPT !.is_active = FALSE, !.logout_time = t]
        ELSE lh[i]]

\* A statement of another connection on the sessions of u does not wait.
Unlocked(u) == locks[u] = 0

\* A new request takes the first free slot.
Arrives(p) ==
    /\ req[p].pc = "idle"
    /\ \A q \in Procs : q < p => req[q].pc # "idle"

\* The handler has responded; its locals are dead.
Respond(r, res) ==
    [NoRequest EXCEPT !.pc = "done", !.op = r.op, !.userId = r.userId,
                      !.deviceId = r.deviceId, !.res = res]

\* loginCustomer up to createSession's beginTransaction: the device id is
\* required, the user exists and the password is compared.
LoginCustomer(p) ==
    /\ Arrives(p)
    /\ Len(login_history) + Cardinality({q \in Procs : req[q].pc \in {"select", "update", "insert"}
                                                       /\ req[q].insertId = 0})
          < MaxSessions
    /\ \E u \in Users, d \in Devices \cup {NoDevice}, isValidPassword \in BOOLEAN :
        LET r == [NoRequest EXCEPT !.op = "login", !.userId = u, !.deviceId = d] IN
        req' = [req EXCEPT ![p] =
                  IF d = NoDevice THEN Respond(r, "400")
                  ELSE IF ~isValidPassword THEN Respond(r, "401")
                  ELSE [r EXCEPT !.pc = "select"]]
    /\ UNCHANGED <<login_history, locks, tokens, checked, now>>
    /\ UNCHANGED coreVars

\* createSession: SELECT * FROM login_history WHERE user_id = ? AND
\* is_active = true FOR UPDATE
CreateSelect(p) ==
    /\ req[p].pc = "select"
    /\ Unlocked(req[p].userId)
    /\ locks' = [locks EXCEPT ![req[p].userId] = p]
    /\ LET found == ActiveSessions(login_history, req[p].userId) # {} IN
        req' = [req EXCEPT ![p].found = found,
                           ![p].pc = IF found THEN "update" ELSE "insert"]
    /\ UNCHANGED <<login_history, tokens, checked, now>>
    /\ UNCHANGED coreVars

\* createSession: the UPDATE that deactivates the active sessions; it takes
\* effect for the other connections at the commit.
CreateUpdate(p) ==
    /\ req[p].pc = "update"
    /\ req' = [req EXCEPT ![p].time = now, ![p].pc = "insert"]
    /\ UNCHANGED <<login_history, locks, tokens, checked, now>>
    /\ UNCHANGED coreVars

\* createSession: the INSERT; result.insertId is the AUTO_INCREMENT id.
CreateInsert(p) ==
    /\ req[p].pc = "insert"
    /\ login_history' = Append(login_history,
                               SessionRow(req[p].userId, req[p].deviceId, now))
    /\ req' = [req EXCEPT ![p].insertId = Len(login_history) + 1, ![p].pc = "commit"]
    /\ UNCHANGED <<locks, tokens, checked, now>>
    /\ UNCHANGED coreVars

\* The table after the commit of createSession's transaction.
CommitSession(lh, r) ==
    [(IF r.found THEN Deactivate(lh, r.userId, r.time) ELSE lh)
        EXCEPT ![r.insertId].committed = TRUE]

\* createSession: commit; loginCustomer signs the token { userId, deviceId,
\* sessionId } and responds.
CreateCommit(p) ==
    /\ req[p].pc = "commit"
    /\ login_history' = CommitSession(login_history, req[p])
    /\ locks' = [locks EXCEPT ![req[p].userId] = 0]
    /\ tokens' = tokens \cup {Token(req[p].userId, req[p].deviceId, req[p].insertId)}
    /\ req' = [req EXCEPT ![p] = Respond(req[p], "200")]
    /\ UNCHANGED <<checked, now>>
    /\ UNCHANGED coreVars

\* A statement of createSession throws (connectivity, deadlock, lock wait
\* timeout): rollback, and loginCustomer's catch responds 500.  The row the
\* transaction inserted is gone; its id is not used again.
CreateError(p) ==
    /\ req[p].pc \in {"select", "update", "insert", "commit"}
    /\ login_history' =
          IF req[p].insertId # 0
          THEN [login_history EXCEPT ![req[p].insertId].is_active = FALSE]
          ELSE login_history
    /\ locks' = [u \in Users |-> IF locks[u] = p THEN 0 ELSE locks[u]]
    /\ req' = [req EXCEPT ![p] = Respond(req[p], "500")]
    /\ UNCHANGED <<tokens, checked, now>>
    /\ UNCHANGED coreVars

\* logoutCustomer behind authenticateToken, which sets req.user to the
\* payload of a token that loginCustomer signed: without a device id it
\* responds at once; otherwise it reads the active sessions, for its log.
LogoutCustomer(p) ==
    /\ Arrives(p)
    /\ \E t \in tokens, d \in Devices \cup {NoDevice} :
        LET r == [NoRequest EXCEPT !.op = "logout", !.userId = t.userId,
                                   !.deviceId = d] IN
        req' = [req EXCEPT ![p] =
                  IF d = NoDevice THEN Respond(r, "200")
                  ELSE [r EXCEPT !.pc = "deactivate"]]
    /\ UNCHANGED <<login_history, locks, tokens, checked, now>>
    /\ UNCHANGED coreVars

\* Deactivate ALL active sessions for this user.
LogoutUpdate(p) ==
    /\ req[p].pc = "deactivate"
    /\ Unlocked(req[p].userId) \/ ActiveSessions(login_history, req[p].userId) = {}
    /\ login_history' = Deactivate(login_history, req[p].userId, now)
    /\ req' = [req EXCEPT ![p].pc = "verifyDeactivation"]
    /\ UNCHANGED <<locks, tokens, checked, now>>
    /\ UNCHANGED coreVars

\* SELECT COUNT(*) as active_count ...
LogoutVerify(p) ==
    /\ req[p].pc = "verifyDeactivation"
    /\ req' = [req EXCEPT ![p] =
                  IF ActiveSessions(login_history, req[p].userId) # {}
                  THEN [req[p] EXCEPT !.pc = "force"]
                  ELSE Respond(req[p], "200")]
    /\ UNCHANGED <<login_history, locks, tokens, checked, now>>
    /\ UNCHANGED coreVars

\* Force deactivation one more time.
LogoutForce(p) ==
    /\ req[p].pc = "force"
    /\ Unlocked(req[p].userId)
    /\ login_history' = ForceDeactivate(login_history, req[p].userId, now)
    /\ req' = [req EXCEPT ![p] = Respond(req[p], "200")]
    /\ UNCHANGED <<locks, tokens, checked, now>>
    /\ UNCHANGED coreVars

\* A statement of logoutCustomer throws: the catch runs the emergency
\* cleanup, which deactivates the sessions or throws too, and responds 200.
LogoutError(p) ==
    /\ req[p].pc \in {"deactivate", "verifyDeactivation", "force"}
    /\ \/ /\ Unlocked(req[p].userId)
          /\ login_history' = ForceDeactivate(login_history, req[p].userId, now)
       \/ UNCHANGED login_history
    /\ req' = [req EXCEPT ![p] = Respond(req[p], "200")]
    /\ UNCHANGED <<locks, tokens, checked, now>>
    /\ UNCHANGED coreVars

\* Variant: the latest session is compared by its device only.
SessionDecision_DeviceOnly(lh, t, d) ==
    IF ActiveSessions(lh, t.userId) = {} THEN {[res |-> "forceLogout", latest |-> 0]}
    ELSE {[res |-> IF lh[i].device_id # d THEN "forceLogout" ELSE "ok", latest |-> i] :
             i \in LatestSessions(lh, t.userId)}

\* sessions.length === 0, and latestSession.device_id !== deviceId ||
\* latestSession.id !== decoded.sessionId, in validateSession and in
\* checkSession: the outcomes over the rows that can be sessions[0], with
\* the id of that row.
SessionDecision(lh, t, d) ==
    IF ActiveSessions(lh, t.userId) = {} THEN {[res |-> "forceLogout", latest |-> 0]}
    ELSE {[res |-> IF lh[i].device_id # d \/ i # t.sessionId THEN "forceLogout" ELSE "ok",
           latest |-> i] :
             i \in LatestSessions(lh, t.userId)}

\* The decision of a session check on a request; latest is the id of the
\* session it compared the request with, 0 when it read none.
Decided(op, t, d, path, res, latest) ==
    [op |-> op, token |-> t, deviceId |-> d, path |-> path, res |-> res,
     latest |-> latest]

\* The middleware validateSession on a request: excluded paths pass, a
\* request without token or device id is refused, and the others are
\* decided by the SELECT ... FOR UPDATE of its transaction; the catch
\* (jwt.verify or a statement throws) refuses too.
ValidateSession ==
    /\ \E t \in tokens \cup {NoToken}, d \in Devices \cup {NoDevice}, path \in Paths :
        IF path \in excludedPaths
        THEN checked' = Decided("validateSession", t, d, path, "next", 0)
        ELSE IF t = NoToken \/ d = NoDevice
        THEN checked' = Decided("validateSession", t, d, path, "forceLogout", 0)
        ELSE \/ /\ Unlocked(t.userId)
                /\ \E o \in SessionDecision(login_history, t, d) :
                      checked' = Decided("validateSession", t, d, path,
                                         IF o.res = "ok" THEN "next" ELSE o.res,
                                         o.latest)
             \/ checked' = Decided("validateSession", t, d, path, "forceLogout", 0)
    /\ UNCHANGED <<login_history, locks, tokens, req, now>>
    /\ UNCHANGED coreVars

\* checkSession: as the middleware, with a plain SELECT ... LIMIT 1.
CheckSession ==
    /\ \E t \in tokens \cup {NoToken}, d \in Devices \cup {NoDevice} :
        IF t = NoToken \/ d = NoDevice
        THEN checked' = Decided("checkSession", t, d, "/check-session", "forceLogout", 0)
        ELSE \/ \E o \in SessionDecision(login_history, t, d) :
                   checked' = Decided("checkSession", t, d, "/check-session",
                                      IF o.res = "ok" THEN "valid" ELSE o.res,
                                      o.latest)
             \/ checked' = Decided("checkSession", t, d, "/check-session",
                                   "forceLogout", 0)
    /\ UNCHANGED <<login_history, locks, tokens, req, now>>
    /\ UNCHANGED coreVars

\* The response has been sent.
Responded(p) ==
    /\ req[p].pc = "done"
    /\ req' = [req EXCEPT ![p] = NoRequest]
    /\ UNCHANGED <<login_history, locks, tokens, checked, now>>
    /\ UNCHANGED coreVars

\* Requests of the users' devices, two logins or logouts at a time, within one tick
\* of CURRENT_TIMESTAMP(): all sessions have the same login_time, so ORDER
\* BY login_time DESC can put any active session first.
NextSession ==
    \/ ValidateSession
    \/ CheckSession
    \/ \E p \in Procs :
          \/ LoginCustomer(p) \/ CreateSelect(p) \/ CreateUpdate(p)
          \/ CreateInsert(p) \/ CreateCommit(p) \/ CreateError(p)
          \/ LogoutCustomer(p) \/ LogoutUpdate(p)
          \/ LogoutVerify(p) \/ LogoutForce(p) \/ LogoutError(p)
          \/ Responded(p)

InitSession == Init /\ media_messages = InitialMessages

SpecSession == InitSession /\ [][NextSession]_vars

(***************************************************************************)
(* Properties.                                                             *)
(***************************************************************************)
\* Listener p has finished the update it took last, and the listener has
\* called the engine for it.
Reconciled(p) ==
    /\ h[p].pc = "loop"
    /\ h[p].result \in {"ok", "fail"}
    /\ h[p].error # "store error"

\* C1: applying the same event twice leaves the Timeline Store as applying
\* it once left it: while a listener reconciles an update that repeats the
\* update it has just reconciled with success (same instance, same id, same
\* status; under sequential delivery nothing else comes between), no step
\* changes report_time.
C1_SecondApplicationKeepsTimeline ==
    [][\A p \in Procs :
        (h[p].repeat /\ h[p].result = "none") => report_time' = report_time]_vars

\* C2: a timestamp field of a report_time row that is non-null keeps its
\* value in every later state (never cleared, never overwritten), and the
\* row stays.
C2_TimestampsSetOnce ==
    [][\A r \in DOMAIN report_time : \A f \in TimeFields :
        report_time[r][f] # NullTime =>
            /\ r \in DOMAIN report_time'
            /\ report_time'[r][f] = report_time[r][f]]_vars

\* C3: when the first event of the message with recipients "a, b,c" has
\* been reconciled (the engine found no row of its whatsapp_message_id and
\* ran the recipient loop, no store call failing), report_time holds exactly
\* three rows of that whatsapp_message_id, for the recipients a, b and c.
C3_ThreeTrimmedRows ==
    \A p \in Procs :
        (Reconciled(p) /\ h[p].msg.recipient = RecABC /\ h[p].ri >= 1) =>
            LET rows == ExistingRows(report_time, h[p].msg.whatsapp_message_id) IN
            /\ Cardinality(rows) = 3
            /\ {report_time[r].recipient : r \in rows} = {<<"a">>, <<"b">>, <<"c">>}

\* Listener p takes a step that ends its call of getDatabaseId.
Resolves(p) ==
    /\ h[p].pc \in ResolverPcs
    /\ h'[p].pc \notin ResolverPcs

\* The messages of the instance of listener p whose whatsapp_message_id is
\* the id of the update it is resolving.
MessagesWithId(p) ==
    {m \in MsgIds :
        /\ media_messages[m].instance_id = h[p].instanceId
        /\ media_messages[m].whatsapp_message_id = h[p].messageId}

\* Those whose whatsapp_message_id contains it.
MessagesContainingId(p) ==
    {m \in MsgIds :
        /\ media_messages[m].instance_id = h[p].instanceId
        /\ media_messages[m].whatsapp_message_id # Null
        /\ \E i \in 1..Len(media_messages[m].whatsapp_message_id) :
             \E j \in i..Len(media_messages[m].whatsapp_message_id) :
                SubSeq(media_messages[m].whatsapp_message_id, i, j) = h[p].messageId}

\* The pending messages of an instance.
PendingMessages(inst) ==
    {m \in MsgIds :
        /\ media_messages[m].instance_id = inst
        /\ media_messages[m].message_status = "pending"}

\* The three tiers find nothing for the update listener p is resolving.
NoTierMatches(p) ==
    /\ MessagesWithId(p) = {}
    /\ MessagesContainingId(p) = {}
    /\ PendingMessages(h[p].instanceId) = {}

\* C4: when an update's id matches no message of the instance exactly, none
\* as a substring, and the instance has no pending message, the update is
\* reported as not found; and no update that is reported as not found has
\* changed media_messages or report_time.
C4_NotFoundChangesNothing ==
    [][\A p \in Procs :
        /\ (h[p].pc = "pending" /\ h'[p] # h[p] /\ NoTierMatches(p)) =>
                (h'[p].result = "notfound" /\ h'[p].pc = "loop")
        /\ (h[p].result = "none" /\ h'[p].result = "notfound") =>
                /\ media_messages' = media_messages
                /\ report_time' = report_time
                /\ touched'[p] = {}]_vars

\* An update was dropped because no tier matched it (the store did not fail).
C4_Witness ==
    \E p \in Procs :
        /\ h[p].result = "notfound"
        /\ h[p].tier = "none"
        /\ NoTierMatches(p)
        /\ touched[p] = {}

\* C5: when no message of the instance has the update's id and exactly one
\* has a whatsapp_message_id that contains it, getDatabaseId returns that
\* message from the LIKE tier: the pending tier is not entered and no
\* whatsapp_message_id is written, pending messages or not.
C5_SubstringMatchNoBackfill ==
    [][\A p \in Procs :
        LET rows == MessagesContainingId(p) IN
        (/\ h[p].pc = "flexible" /\ h'[p] # h[p] /\ h'[p].tier # "error"
         /\ MessagesWithId(p) = {}
         /\ Cardinality(rows) = 1) =>
            /\ Resolves(p)
            /\ h'[p].tier = "flexible"
            /\ h'[p].result # "notfound"
            /\ h'[p].dbId \in rows
            /\ media_messages' = media_messages
            /\ "media_messages" \notin touched'[p]]_vars

\* The LIKE tier resolved an update while the instance had pending messages.
C5_Witness ==
    \E p \in Procs :
        /\ h[p].pc = "setStatus"
        /\ h[p].tier = "flexible"
        /\ MessagesWithId(p) = {}
        /\ MessagesContainingId(p) = {h[p].dbId}
        /\ PendingMessages(h[p].instanceId) # {}
        /\ \A m \in MsgIds : media_messages[m] = InitialMessages[m]

\* The pending messages of an instance that no pending message of the
\* instance was created after.
MostRecentPending(inst) ==
    {m \in PendingMessages(inst) :
        ~ \E o \in PendingMessages(inst) :
            media_messages[o].created_at > media_messages[m].created_at}

\* C6: when neither the exact nor the LIKE tier matches and the instance has
\* a pending message, getDatabaseId selects a most recently created pending
\* message of the instance, writes the update's id into its
\* whatsapp_message_id, changes nothing else in media_messages, and returns
\* that message.
C6_PendingFallbackBackfills ==
    [][\A p \in Procs :
        /\ (/\ h[p].pc = "pending" /\ h'[p] # h[p] /\ h'[p].tier # "error"
            /\ MessagesWithId(p) = {}
            /\ MessagesContainingId(p) = {}
            /\ PendingMessages(h[p].instanceId) # {}) =>
                /\ h'[p].pc = "backfill"
                /\ h'[p].dbId \in MostRecentPending(h[p].instanceId)
                /\ media_messages' = media_messages
        /\ (h[p].pc = "backfill" /\ h'[p] # h[p] /\ h'[p].tier # "error") =>
                /\ h'[p].tier = "pending"
                /\ h'[p].result # "notfound"
                /\ h'[p].dbId = h[p].dbId
                /\ media_messages'[h[p].dbId].whatsapp_message_id = h[p].messageId
                /\ \A m \in MsgIds :
                      IF m = h[p].dbId
                      THEN media_messages'[m] =
                             [media_messages[m] EXCEPT !.whatsapp_message_id = h[p].messageId]
                      ELSE media_messages'[m] = media_messages[m]]_vars

\* The fallback chose the newer of two pending messages and backfilled it.
C6_Witness ==
    \E p \in Procs :
        /\ h[p].pc = "setStatus"
        /\ h[p].tier = "pending"
        /\ h[p].dbId = 3
        /\ media_messages[3].whatsapp_message_id = h[p].messageId
        /\ media_messages[2].message_status = "pending"
        /\ media_messages[2].whatsapp_message_id = Null

\* The rows of report_time that carry a whatsapp_message_id.
RowsOf(wid) == {r \in RowIds : report_time[r].whatsapp_message_id = wid}

\* C7: for a row with sent_time set, a later 'delivered' event of the row's
\* message, when delivered_time is null, sets delivered_time and leaves the
\* other four timestamps of the row as they were, and a later 'sent' event
\* leaves sent_time as it was.
C7_DeliveredSetsSentKeeps ==
    [][\A p \in Procs : \A r \in RowIds :
        (/\ h[p].pc = "updateReport" /\ h'[p].result = "ok"
         /\ r \in RowsOf(h[p].msg.whatsapp_message_id)
         /\ report_time[r].sent_time # NullTime) =>
            /\ (h[p].newStatus = "delivered" /\ report_time[r].delivered_time = NullTime) =>
                    /\ report_time'[r].delivered_time # NullTime
                    /\ \A f \in TimeFields \ {"delivered_time"} :
                          report_time'[r][f] = report_time[r][f]
            /\ h[p].newStatus = "sent" =>
                    report_time'[r].sent_time = report_time[r].sent_time]_vars

\* The entries of a sequence are pairwise different.
Distinct(seq) == \A i, j \in DOMAIN seq : i # j => seq[i] # seq[j]

\* C8: no two rows of report_time share (instance_id, recipient,
\* whatsapp_message_id), and once the first event of a message with N
\* distinct recipients has been reconciled (no store call failing for a
\* reason of the store's own), report_time holds N rows of the message's
\* whatsapp_message_id, one for each recipient.
C8_OneRowPerRecipient ==
    /\ \A r1, r2 \in RowIds :
          (/\ report_time[r1].instance_id = report_time[r2].instance_id
           /\ report_time[r1].recipient = report_time[r2].recipient
           /\ report_time[r1].whatsapp_message_id = report_time[r2].whatsapp_message_id)
          => r1 = r2
    /\ \A p \in Procs :
          (Reconciled(p) /\ h[p].ri >= 1 /\ Distinct(h[p].recipients)) =>
              /\ Cardinality(RowsOf(h[p].msg.whatsapp_message_id)) = Len(h[p].recipients)
              /\ {report_time[r].recipient : r \in RowsOf(h[p].msg.whatsapp_message_id)}
                    = {h[p].recipients[i] : i \in DOMAIN h[p].recipients}

\* C9: the timeline check-then-act is atomic under concurrent delivery.  A
\* listener that found no row for its recipient inserts one only while that
\* is still so, and a listener that found no row of its whatsapp_message_id
\* does not write a timestamp that a row of that id already holds.
C9_CheckThenActAtomic ==
    [][\A p \in Procs :
        /\ (h[p].pc = "insert" /\ h'[p] # h[p] /\ h'[p].error # "store error") =>
              ~ \E r \in RowIds :
                    /\ report_time[r].instance_id = h[p].msg.instance_id
                    /\ report_time[r].recipient = h[p].recipients[h[p].ri]
        /\ (h[p].pc = "updateRecipient" /\ h'[p] # h[p] /\ h'[p].error # "store error") =>
              ~ /\ report_time[h[p].rowId].whatsapp_message_id = h[p].msg.whatsapp_message_id
                /\ report_time[h[p].rowId][h[p].timeField] # NullTime
                /\ report_time'[h[p].rowId][h[p].timeField]
                      # report_time[h[p].rowId][h[p].timeField]]_vars

\* C10: a failed reconciliation (getDatabaseId found nothing, or a store
\* call of the resolver or the engine failed) is confined to its update.  The
\* listener is back at the head of its loop with the rest of the batch as it
\* was and the other listener is not touched; an update enters resolution
\* only when it is taken from the batch, so none is retried; a listener ends
\* only at the head of the loop with the batch exhausted; and every listener
\* that was started ends, so that all its updates have been taken.
C10_FailureConfined ==
    /\ [][\A p \in Procs :
            /\ (h[p].result = "none" /\ h'[p].result \in {"notfound", "fail"}) =>
                  /\ h'[p].pc = "loop"
                  /\ h'[p].left = h[p].left
                  /\ h'[p].stream = h[p].stream
                  /\ h'[p].instanceId = h[p].instanceId
                  /\ \A q \in Procs \ {p} : h'[q] = h[q]
            /\ (h'[p].pc = "exact" /\ h[p].pc # "exact") =>
                  (h[p].pc = "loop" /\ h'[p].left = h[p].left - 1)
            /\ (h[p].pc # "idle" /\ h'[p].pc = "idle") =>
                  (h[p].pc = "loop" /\ h[p].left = 0)]_vars
    /\ \A p \in Procs : (h[p].pc # "idle") ~> (h[p].pc = "idle")

\* A reconciliation has failed and the batch holds one more update.
C10_Witness ==
    \E p \in Procs :
        /\ h[p].pc = "loop"
        /\ h[p].result \in {"notfound", "fail"}
        /\ h[p].left = 1

\* The update listener p took last lacks its key, or lacks its payload
\* (update.update on the status stream, update.receipt on the receipt one).
LacksKeyOrPayload(p) ==
    /\ h[p].update # NoUpdate
    /\ (~h[p].update.hasKey \/ ~h[p].update.hasPayload)

\* C11: an update that lacks its key or its payload is skipped before
\* getDatabaseId is called: the listener is at the head of its loop, no tier
\* has run for the update, and neither media_messages nor report_time has
\* been changed for it.
C11_MalformedSkippedBeforeResolution ==
    \A p \in Procs :
        LacksKeyOrPayload(p) =>
            /\ h[p].pc = "loop"
            /\ h[p].result = "skipped"
            /\ h[p].tier = "none"
            /\ touched[p] = {}

\* C12: a listener of one instance resolves only messages of its instance
\* and changes only rows of its instance, in media_messages and in
\* report_time (rows it inserts included), whatever ids the rows carry.
C12_InstanceScoped ==
    [][\A p \in Procs :
        (h[p].pc # "idle" /\ h'[p] # h[p]) =>
            /\ (h'[p].dbId # h[p].dbId /\ h'[p].dbId \in MsgIds) =>
                  media_messages[h'[p].dbId].instance_id = h[p].instanceId
            /\ \A m \in MsgIds :
                  media_messages'[m] # media_messages[m] =>
                      media_messages[m].instance_id = h[p].instanceId
            /\ \A r \in DOMAIN report_time' :
                  (r \notin RowIds \/ report_time'[r] # report_time[r]) =>
                      report_time'[r].instance_id = h[p].instanceId]_vars

\* The status a status code stands for, 'PENDING' being no code of the table.
CodeStatus(code) ==
    CASE code = Num(1) -> "pending"
      [] code = Num(2) -> "sent"
      [] code = Num(3) -> "delivered"
      [] code = Num(4) -> "read"
      [] code = Num(-1) -> "failed"
      [] OTHER -> "sent"

\* Listener p of the status stream has normalized the status of its update
\* and is about to call the engine with it.
Normalized(p) ==
    /\ h[p].stream = "messages.update"
    /\ h[p].pc = "setStatus"

\* C13 as stated: 1 -> pending, 2 -> sent, 3 -> delivered, 4 -> read,
\* -1 -> failed and every other value of update.update.status -> sent; the
\* result is one of the five statuses.
C13_EveryOtherCodeSent ==
    \A p \in Procs :
        Normalized(p) =>
            /\ h[p].newStatus = CodeStatus(h[p].update.status)
            /\ h[p].newStatus \in MESSAGE_STATUS

\* C13, amended: as stated, except that the string 'PENDING' is normalized
\* to pending, like 1; every value other than 1, 2, 3, 4, -1 and 'PENDING'
\* gives sent, and the result is one of the five statuses.
C13_CodesNormalized ==
    \A p \in Procs :
        Normalized(p) =>
            /\ h[p].newStatus =
                  (IF h[p].update.status = Str("PENDING") THEN "pending"
                   ELSE CodeStatus(h[p].update.status))
            /\ h[p].newStatus \in MESSAGE_STATUS

\* An unrecognized code has been normalized to sent.
C13_Witness ==
    \E p \in Procs :
        /\ Normalized(p)
        /\ h[p].update.status = Num(5)
        /\ h[p].newStatus = "sent"

\* Listener p of the receipt stream has mapped the receipt type of its
\* update and is about to call the engine with the status.
ReceiptMapped(p) ==
    /\ h[p].stream = "message-receipt.update"
    /\ h[p].pc = "setStatus"

\* C14 as stated: a receipt gives read exactly when its type is 'read' and
\* delivered exactly when its type is 'delivered'.
C14_ReceiptOneToOne ==
    \A p \in Procs :
        ReceiptMapped(p) =>
            /\ (h[p].newStatus = "read") <=> (h[p].update.type = "read")
            /\ (h[p].newStatus = "delivered") <=> (h[p].update.type = "delivered")

\* C14, amended: a receipt gives read exactly when its type is 'read', and
\* delivered for every other type, 'delivered' among them.
C14_ReadElseDelivered ==
    \A p \in Procs :
        ReceiptMapped(p) =>
            /\ (h[p].update.type = "read") => (h[p].newStatus = "read")
            /\ (h[p].update.type # "read") => (h[p].newStatus = "delivered")

\* A receipt of a type other than 'read' and 'delivered' was mapped.
C14_Witness ==
    \E p \in Procs :
        /\ ReceiptMapped(p)
        /\ h[p].update.type = "played"
        /\ h[p].newStatus = "delivered"

\* The canonical status of the update listener p took last: the status its
\* code, or its receipt type, stands for.
EventStatus(p) ==
    IF h[p].stream = "messages.update"
    THEN (IF h[p].update.status = Str("PENDING") THEN "pending"
          ELSE CodeStatus(h[p].update.status))
    ELSE (IF h[p].update.type = "read" THEN "read" ELSE "delivered")

\* C15: the status write of a resolved update sets message_status of the
\* resolved message to the update's canonical status whatever the status
\* was (a store failure apart), also from read back to delivered.
C15_LastWriteWins ==
    [][\A p \in Procs :
        (/\ h[p].pc = "setStatus" /\ h'[p] # h[p] /\ h'[p].error # "store error"
         /\ h[p].dbId \in MsgIds) =>
            /\ media_messages'[h[p].dbId].message_status = EventStatus(p)
            /\ h'[p].pc = "getMessage"
            /\ \A m \in MsgIds \ {h[p].dbId} :
                  media_messages'[m] = media_messages[m]]_vars

\* A 'delivered' event arrived after a 'read' one: the message went from
\* read back to delivered.
C15_Witness ==
    \E p \in Procs :
        /\ h[p].pc = "getMessage"
        /\ h[p].oldStatus = "read"
        /\ EventStatus(p) = "delivered"
        /\ media_messages[h[p].dbId].message_status = "delivered"

\* C16: message_status never goes back in the order pending, sent,
\* delivered, read.
C16_StatusNeverRegresses ==
    [][\A m \in MsgIds :
        (/\ media_messages[m].message_status \in {"pending", "sent", "delivered", "read"}
         /\ media_messages'[m].message_status \in {"pending", "sent", "delivered", "read"}) =>
            StatusRank(media_messages'[m].message_status)
                >= StatusRank(media_messages[m].message_status)]_vars

\* The recipients of a list that are not blank.
NonBlank(recipient) ==
    {i \in DOMAIN Split(recipient) : Trim(Split(recipient)[i]) # <<>>}

\* C17: a reconciliation that returns success returns, as its count, the
\* number of non-blank recipients of the message.
C17_CountIsRecipients ==
    \A p \in Procs :
        (h[p].pc = "loop" /\ h[p].result = "ok") =>
            h[p].affectedRows = Cardinality(NonBlank(media_messages[h[p].dbId].recipient))

\* C18: the scenario, with the message of recipients "b,a" in the place of
\* the one of recipients "+1000,+2000".  A status update of code 3 whose id
\* is the whatsapp_message_id of that message, its message_status being
\* sent, ends with message_status delivered and with exactly two rows of
\* that id in report_time, one for each recipient, both with delivered_time
\* set.
C18_ScenarioTwoRows ==
    \A p \in Procs :
        (/\ Reconciled(p)
         /\ h[p].stream = "messages.update" /\ h[p].update.status = Num(3)
         /\ h[p].tier = "exact" /\ h[p].oldStatus = "sent"
         /\ h[p].msg.recipient = RecBA) =>
            /\ media_messages[h[p].dbId].message_status = "delivered"
            /\ Cardinality(RowsOf(h[p].messageId)) = 2
            /\ {report_time[r].recipient : r \in RowsOf(h[p].messageId)}
                  = {<<"b">>, <<"a">>}
            /\ \A r \in RowsOf(h[p].messageId) :
                  report_time[r].delivered_time # NullTime

\* C19: the scenario.  A receipt of type 'read' whose id no message of the
\* instance contains, a pending message existing, ends with the id in that
\* message's whatsapp_message_id, its message_status read, and for each of
\* its recipients a row of that id in report_time with read_time set.
C19_ScenarioFallbackRead ==
    \A p \in Procs :
        (/\ Reconciled(p)
         /\ h[p].stream = "message-receipt.update" /\ h[p].update.type = "read"
         /\ h[p].tier = "pending") =>
            LET m == media_messages[h[p].dbId] IN
            /\ m.whatsapp_message_id = h[p].messageId
            /\ m.message_status = "read"
            /\ \A i \in DOMAIN Split(m.recipient) :
                  \E r \in RowsOf(h[p].messageId) :
                      /\ report_time[r].recipient = Split(m.recipient)[i]
                      /\ report_time[r].read_time # NullTime

\* C20: no step changes instance_id, recipient or created_at of a message,
\* and none removes a message or a row of report_time.
C20_OnlyStatusAndIdChange ==
    [][/\ DOMAIN media_messages' = DOMAIN media_messages
       /\ \A m \in MsgIds :
             /\ media_messages'[m].instance_id = media_messages[m].instance_id
             /\ media_messages'[m].recipient = media_messages[m].recipient
             /\ media_messages'[m].created_at = media_messages[m].created_at
       /\ \A r \in RowIds : r \in DOMAIN report_time']_vars

\* A message has had both its whatsapp_message_id and its message_status
\* written, and a row of report_time was made for it.
C20_Witness ==
    \E m \in MsgIds :
        /\ media_messages[m].whatsapp_message_id # InitialMessages[m].whatsapp_message_id
        /\ media_messages[m].message_status # InitialMessages[m].message_status
        /\ media_messages[m].recipient = InitialMessages[m].recipient
        /\ RowsOf(media_messages[m].whatsapp_message_id) # {}

\* C21: the tiers run in the order exact, LIKE, pending, each only when the
\* one before it found nothing.  When a message of the instance has the
\* update's id, the exact tier returns such a message and nothing is
\* backfilled, pending messages or not; the LIKE tier is entered only from
\* the exact tier with no exact match, the pending tier only from the LIKE
\* tier with no match, the backfill only from the pending tier.
C21_TiersInOrder ==
    [][\A p \in Procs :
        /\ (/\ h[p].pc = "exact" /\ h'[p] # h[p] /\ h'[p].tier # "error"
            /\ MessagesWithId(p) # {}) =>
                /\ Resolves(p)
                /\ h'[p].tier = "exact"
                /\ h'[p].result # "notfound"
                /\ h'[p].dbId \in MessagesWithId(p)
                /\ media_messages' = media_messages
                /\ "media_messages" \notin touched'[p]
        /\ (h'[p].pc = "exact" /\ h[p].pc # "exact") => h[p].pc = "loop"
        /\ (h'[p].pc = "flexible" /\ h[p].pc # "flexible") =>
                (h[p].pc = "exact" /\ MessagesWithId(p) = {})
        /\ (h'[p].pc = "pending" /\ h[p].pc # "pending") =>
                (h[p].pc = "flexible" /\ MessagesContainingId(p) = {})
        /\ (h'[p].pc = "backfill" /\ h[p].pc # "backfill") =>
                h[p].pc = "pending"]_vars

\* The exact tier resolved an update while the instance had pending
\* messages, and no whatsapp_message_id was written.
C21_Witness ==
    \E p \in Procs :
        /\ h[p].pc = "setStatus"
        /\ h[p].tier = "exact"
        /\ h[p].dbId \in MessagesWithId(p)
        /\ PendingMessages(h[p].instanceId) # {}
        /\ \A m \in MsgIds :
              media_messages[m].whatsapp_message_id = InitialMessages[m].whatsapp_message_id

\* C22: whatsapp_message_id of a message is written only by the backfill of
\* the pending tier, and one that is set is never replaced.
C22_ExternalIdNeverReplaced ==
    [][\A m \in MsgIds :
        /\ media_messages[m].whatsapp_message_id # Null =>
              media_messages'[m].whatsapp_message_id = media_messages[m].whatsapp_message_id
        /\ media_messages'[m].whatsapp_message_id # media_messages[m].whatsapp_message_id =>
              \E p \in Procs : h[p].pc = "backfill" /\ h[p].dbId = m]_vars

\* C23: under concurrent delivery, when the pending tier has given listener p
\* the message it has given listener q for an update of another id, the
\* backfill of p writes p's id over whatever the message holds (the last
\* backfill stands) and p goes on to the status write for that message; and
\* the status write of an update resolved by the pending tier sets the
\* message's status to the update's status.
C23_FallbackSharesPendingMessage ==
    [][\A p \in Procs :
        /\ \A q \in Procs \ {p} :
              (/\ h[p].pc = "backfill" /\ h'[p] # h[p] /\ h'[p].tier # "error"
               /\ h[q].tier = "pending" /\ h[q].dbId = h[p].dbId
               /\ h[q].messageId # h[p].messageId) =>
                  /\ media_messages'[h[p].dbId].whatsapp_message_id = h[p].messageId
                  /\ h'[p].tier = "pending"
                  /\ h'[p].dbId = h[q].dbId
                  /\ h'[p].pc = "setStatus"
        /\ (/\ h[p].pc = "setStatus" /\ h'[p] # h[p] /\ h'[p].error # "store error"
            /\ h[p].tier = "pending") =>
                  media_messages'[h[p].dbId].message_status = h[p].newStatus]_vars

\* Two updates of different ids, processed concurrently, were both resolved
\* by the pending tier to the same message; both backfills and both status
\* writes are done, the id that stands is that of q and the status that of p.
C23_Witness ==
    \E p \in Procs : \E q \in Procs \ {p} :
        /\ h[p].tier = "pending" /\ h[q].tier = "pending"
        /\ h[p].dbId = h[q].dbId
        /\ h[p].messageId # h[q].messageId
        /\ h[p].oldStatus # "" /\ h[q].oldStatus # ""
        /\ h[p].newStatus # h[q].newStatus
        /\ media_messages[h[p].dbId].whatsapp_message_id = h[q].messageId
        /\ media_messages[h[p].dbId].message_status = h[p].newStatus

\* The messages a row of report_time belongs to: those of its instance that
\* carry its whatsapp_message_id.
OwnersOf(r) ==
    {m \in MsgIds :
        /\ media_messages[m].instance_id = report_time[r].instance_id
        /\ media_messages[m].whatsapp_message_id = report_time[r].whatsapp_message_id}

\* C24: a step of the recipient loop that handles a recipient of a message
\* for the first time (no row of the message's id existed) makes a new row
\* for the pair, a failed statement apart; and no step of a listener changes
\* a row that belongs to a message other than the one the listener
\* resolved.
C24_OtherMessagesEntriesKept ==
    [][\A p \in Procs :
        (h[p].pc # "idle" /\ h'[p] # h[p]) =>
            /\ (/\ h[p].pc \in {"insert", "updateRecipient"}
                /\ h'[p].result # "fail") =>
                    /\ Len(report_time') = Len(report_time) + 1
                    /\ report_time'[Len(report_time')].instance_id = h[p].msg.instance_id
                    /\ report_time'[Len(report_time')].recipient = h[p].recipients[h[p].ri]
                    /\ report_time'[Len(report_time')].whatsapp_message_id
                          = h[p].msg.whatsapp_message_id
            /\ \A r \in RowIds :
                  (OwnersOf(r) # {} /\ h[p].dbId \notin OwnersOf(r)) =>
                      report_time'[r] = report_time[r]]_vars

\* C25: the row the engine makes on the first event of a message (no row of
\* the message's id existed) is seeded with the field of the event's status
\* and with initiated_time: both are set in the new row.
C25_NewEntrySeedsInitiated ==
    [][\A p \in Procs :
        (h[p].pc = "insert" /\ Len(report_time') = Len(report_time) + 1) =>
            /\ report_time'[Len(report_time')][TimeFieldOf(EventStatus(p))] # NullTime
            /\ report_time'[Len(report_time')].initiated_time # NullTime]_vars

\* C26: when no listener is running, a message whose message_status the
\* engine has set to S (it is not the status the message was stored with)
\* has, for each of its non-blank recipients, a row of its
\* whatsapp_message_id whose field for S is set.
C26_StatusAndTimelineAgree ==
    AllIdle =>
        \A m \in MsgIds :
            media_messages[m].message_status # InitialMessages[m].message_status =>
                \A i \in NonBlank(media_messages[m].recipient) :
                    \E r \in RowsOf(media_messages[m].whatsapp_message_id) :
                        /\ report_time[r].instance_id = media_messages[m].instance_id
                        /\ report_time[r].recipient = Trim(Split(media_messages[m].recipient)[i])
                        /\ report_time[r][TimeFieldOf(media_messages[m].message_status)]
                              # NullTime

\* C27: a status passed to the engine that is none of the five is replaced
\* by sent and the call goes on as for sent: the status write (a store
\* failure apart) sets message_status to the status passed when it is one
\* of the five and to sent when it is not, and message_status of every
\* message is one of the five after every step.
C27_InvalidStatusBecomesSent ==
    [][/\ \A m \in MsgIds : media_messages'[m].message_status \in MESSAGE_STATUS
       /\ \A p \in Procs :
            (/\ h[p].pc = "setStatus" /\ h'[p] # h[p] /\ h'[p].error # "store error"
             /\ h[p].dbId \in MsgIds) =>
                /\ media_messages'[h[p].dbId].message_status =
                      (IF h[p].passed \in {"pending", "sent", "delivered", "read", "failed"}
                       THEN h[p].passed ELSE "sent")
                /\ h'[p].pc = "getMessage"
                /\ h'[p].result = "none"]_vars

\* The engine was called with a status that is none of the five for a
\* message that was not sent, and has written sent.
C27_Witness ==
    \E p \in Procs :
        /\ h[p].pc = "getMessage"
        /\ h[p].passed = "played"
        /\ h[p].oldStatus = "pending"
        /\ media_messages[h[p].dbId].message_status = "sent"

\* The timestamp a canonical status stands for.
ImpliedField(status) ==
    CASE status = "pending" -> "initiated_time"
      [] status = "sent" -> "sent_time"
      [] status = "delivered" -> "delivered_time"
      [] status = "read" -> "read_time"
      [] status = "failed" -> "failed_time"

\* C28: a step of a listener that writes report_time writes, in each row it
\* makes or changes, the field of the update's canonical status (pending:
\* initiated_time, sent: sent_time, delivered: delivered_time, read:
\* read_time, failed: failed_time) with NOW(), and leaves the other four
\* timestamps as they were (null in a new row); the update of the rows of the
\* message's id writes that field in each of them.
C28_FieldByStatusAlone ==
    [][\A p \in Procs :
        (/\ h[p].pc \in {"updateReport", "insert", "updateRecipient"}
         /\ h'[p] # h[p]) =>
            LET f == ImpliedField(EventStatus(p)) IN
            /\ \A r \in DOMAIN report_time' :
                  (r \notin RowIds \/ report_time'[r] # report_time[r]) =>
                      /\ report_time'[r][f] = now
                      /\ \A g \in TimeFields \ {f} :
                            report_time'[r][g] =
                                (IF r \in RowIds THEN report_time[r][g] ELSE NullTime)
            /\ (h[p].pc = "updateReport" /\ h'[p].result = "ok") =>
                  \A r \in RowsOf(h[p].msg.whatsapp_message_id) :
                      report_time'[r][f] = now]_vars

\* A 'delivered' update has been reconciled and the row of its message
\* holds delivered_time and no other timestamp.
C28_Witness ==
    \E p \in Procs : \E r \in RowIds :
        /\ h[p].pc = "loop" /\ h[p].result = "ok"
        /\ EventStatus(p) = "delivered"
        /\ report_time[r].whatsapp_message_id = h[p].msg.whatsapp_message_id
        /\ report_time[r].delivered_time # NullTime
        /\ \A g \in TimeFields \ {"delivered_time"} : report_time[r][g] = NullTime

\* What a table report_time shows of its rows: whose they are and which of
\* their timestamps are set.
Shape(rt) ==
    {<<rt[r].instance_id, rt[r].recipient, rt[r].whatsapp_message_id,
       {f \in TimeFields : rt[r][f] # NullTime}>> : r \in DOMAIN rt}

\* The tables the engine call of a listener can still end with, from the
\* listener's position r and the table rt.
Rest(rt, r, t) ==
    CASE r.pc = "checkReport" -> Timeline(rt, r.msg, r.timeField, t)
      [] r.pc = "updateReport" ->
            {UpdateReport(rt, r.msg.whatsapp_message_id, r.timeField, t)}
      [] r.pc = "checkRecipient" ->
            FanOut(rt, r.msg, r.recipients, r.ri, r.timeField, t)
      [] r.pc = "insert" ->
            IF UniqueOk(rt, 0, r.msg.whatsapp_message_id)
            THEN FanOut(InsertReport(rt, r.msg.instance_id, r.recipients[r.ri],
                                     r.msg.whatsapp_message_id, r.timeField, t),
                        r.msg, r.recipients, r.ri + 1, r.timeField, t)
            ELSE {rt}
      [] r.pc = "updateRecipient" ->
            IF UniqueOk(rt, r.rowId, r.msg.whatsapp_message_id)
            THEN FanOut(UpdateRecipient(rt, r.rowId, r.msg.whatsapp_message_id,
                                        r.timeField, t),
                        r.msg, r.recipients, r.ri + 1, r.timeField, t)
            ELSE {rt}
      [] OTHER -> {rt}

\* The columns of message m that the engine reads.
ColumnsOf(m) ==
    [whatsapp_message_id |-> media_messages[m].whatsapp_message_id,
     instance_id |-> media_messages[m].instance_id,
     recipient |-> media_messages[m].recipient]

\* The shapes report_time can have after an event of status s1 and then one
\* of status s2 were reconciled for message m, from the current state.
ShapesAfter(m, s1, s2) ==
    {Shape(rt2) : rt2 \in UNION {Timeline(rt1, ColumnsOf(m), TimeFieldOf(s2), now) :
                                  rt1 \in Timeline(report_time, ColumnsOf(m),
                                                   TimeFieldOf(s1), now)}}

\* C29: from every state between two events, for every message that has a
\* whatsapp_message_id and every two different statuses, reconciling the two
\* events in one order and in the other gives the same rows of report_time
\* with the same timestamps set in each (no store call failing for a reason
\* of the store's own); the steps of the listeners are those of the function
\* the comparison is made with.
C29_OrderKeepsShape ==
    /\ []((\A p \in Procs : h[p].pc \in {"idle", "loop"}) =>
            \A m \in MsgIds : \A s1, s2 \in MESSAGE_STATUS :
                (s1 # s2 /\ media_messages[m].whatsapp_message_id # Null) =>
                    ShapesAfter(m, s1, s2) = ShapesAfter(m, s2, s1))
    /\ [][\A p \in Procs :
            (/\ h[p].pc \in {"checkReport", "updateReport", "checkRecipient",
                             "insert", "updateRecipient"}
             /\ h'[p] # h[p] /\ h'[p].error # "store error") =>
                {Shape(rt) : rt \in Rest(report_time', h'[p], now)}
                    \subseteq {Shape(rt) : rt \in Rest(report_time, h[p], now)}]_vars

\* Two events of different statuses have been reconciled one after the
\* other for one message: a row of its id holds two timestamps.
C29_Witness ==
    \E p \in Procs : \E r \in RowIds :
        /\ h[p].pc = "loop" /\ h[p].result = "ok" /\ h[p].tier = "exact"
        /\ report_time[r].whatsapp_message_id = h[p].msg.whatsapp_message_id
        /\ report_time[r][h[p].timeField] # NullTime
        /\ \E g \in TimeFields \ {h[p].timeField} : report_time[r][g] # NullTime

\* C30: when the migration has run, every row of report_time that belongs
\* to a message with a whatsapp_message_id has initiated_time equal to the
\* message's created_at, and each such message has one row for each of its
\* non-blank recipients, trimmed, and no other.
C30_MigratedRowPerRecipient ==
    \A p \in Procs :
        h[p].pc = "migrated" =>
            /\ \A r \in RowIds : \A m \in OwnersOf(r) :
                  report_time[r].initiated_time = media_messages[m].created_at
            /\ \A m \in MsgIds :
                  media_messages[m].whatsapp_message_id # Null =>
                      LET rows == {r \in RowsOf(media_messages[m].whatsapp_message_id) :
                                      report_time[r].instance_id = media_messages[m].instance_id}
                          recs == {Trim(Split(media_messages[m].recipient)[i]) :
                                      i \in NonBlank(media_messages[m].recipient)} IN
                      /\ {report_time[r].recipient : r \in rows} = recs
                      /\ Cardinality(rows) = Cardinality(recs)

C34_StatusWrittenBeforeIdRead ==
    \A p \in Procs :
        /\ h[p].pc = "getMessage" =>
              media_messages[h[p].dbId].message_status = h[p].newStatus
        /\ (h[p].pc = "loop" /\ h[p].error = "No WhatsApp message ID") =>
              /\ h[p].result = "fail"
              /\ media_messages[h[p].dbId].whatsapp_message_id = Null
              /\ media_messages[h[p].dbId].message_status = h[p].newStatus
              /\ "report_time" \notin touched[p]

\* The engine, called for a message without whatsapp_message_id, has
\* returned the failure and the message's status is no longer the old one.
C34_Witness ==
    \E p \in Procs :
        /\ h[p].pc = "loop" /\ h[p].stream = ""
        /\ h[p].result = "fail" /\ h[p].error = "No WhatsApp message ID"
        /\ h[p].oldStatus # h[p].newStatus
        /\ media_messages[h[p].dbId].message_status = h[p].newStatus
        /\ "media_messages" \in touched[p]

\* C35: within a batch the updates are reconciled one after the other in
\* the order the loop takes them: a listener starts the resolution of an
\* update only when the one before it has finished (it is at the head of
\* the loop, none of its store calls pending), it takes one update at a
\* time, and while an update is in progress the listener stays on it.
\* Every store write is a step of one listener on its current update, so
\* the writes that come between those of one update are those of another
\* listener: of another batch.
C35_OneUpdateAtATime ==
    [][/\ \A p \in Procs :
            /\ (h'[p].pc = "exact" /\ h'[p] # h[p]) =>
                  /\ h[p].pc = "loop"
                  /\ h'[p].left = h[p].left - 1
                  /\ touched'[p] = {}
            /\ (h[p].pc \in ResolverPcs \cup EnginePcs) =>
                  /\ h'[p].left = h[p].left
                  /\ h'[p].update = h[p].update
                  /\ h'[p].instanceId = h[p].instanceId
                  /\ h'[p].stream = h[p].stream
       /\ (media_messages' # media_messages \/ report_time' # report_time) =>
            \E p \in Procs :
                /\ h[p].pc \in {"backfill"} \cup EnginePcs
                /\ h'[p] # h[p]
                /\ touched'[p] # {}
                /\ \A q \in Procs \ {p} : h'[q] = h[q] /\ touched'[q] = touched[q]]_vars

\* The second update of a batch has been reconciled, after the first was,
\* and has written to report_time.
C35_Witness ==
    \E p \in Procs :
        /\ h[p].repeat
        /\ h[p].left = 0
        /\ h[p].pc = "loop" /\ h[p].result = "ok"
        /\ "report_time" \in touched[p]

\* C32: after any sequence of logins and logouts of a user, two logins of
\* different devices running their createSession transactions at the same
\* time included, at most one login_history row of the user is active, and
\* when a logout has answered no row of the user is active.
C32_AtMostOneActiveSession ==
    /\ [](\A u \in Users : Cardinality(ActiveSessions(login_history, u)) <= 1)
    /\ [][\A p \in Procs :
            (/\ req[p].pc # "done" /\ req'[p].pc = "done"
             /\ req'[p].op = "logout" /\ req'[p].res = "200") =>
                ActiveSessions(login_history', req'[p].userId) = {}]_vars

\* The request that a session check has decided was checked against the
\* sessions: checkSession always does, the middleware on the paths it
\* does not exclude.
SessionChecked(c) ==
    \/ c.op = "checkSession"
    \/ c.op = "validateSession" /\ c.path \notin excludedPaths

\* The request was let through.
Accepted(c) == c.res \in {"next", "valid"}

\* The user of token t has logged in from another device after the login
\* that t was signed for.
Superseded(lh, t) ==
    /\ t # NoToken
    /\ \E j \in DOMAIN lh :
          /\ j > t.sessionId
          /\ lh[j].committed /\ lh[j].user_id = t.userId
          /\ lh[j].device_id # t.deviceId

\* The session of the request's token is the latest active session of its
\* user, and of the device of the token.
TokenOfLatestSession(lh, c) ==
    \E i \in LatestSessions(lh, c.token.userId) :
        /\ i = c.token.sessionId
        /\ lh[i].device_id = c.token.deviceId

\* The same, the x-device-id of the request being that device too.
OfLatestSession(lh, c) ==
    \E i \in LatestSessions(lh, c.token.userId) :
        /\ i = c.token.sessionId
        /\ lh[i].device_id = c.token.deviceId
        /\ lh[i].device_id = c.deviceId

\* C33: once the user has logged in from a second device, every later
\* request with the token of the earlier session is refused with
\* forceLogout, by the session middleware and by checkSession, and a
\* request is accepted only if the sessionId and the device id of its token
\* are those of the user's latest active session.
C33_StaleTokenRefused ==
    [][(checked' # checked /\ checked'.token # NoToken) =>
          /\ Superseded(login_history, checked'.token) =>
                checked'.res = "forceLogout"
          /\ Accepted(checked') => TokenOfLatestSession(login_history, checked')]_vars

\* C33, amended: the same for the requests that are checked against the
\* sessions, which are those of checkSession and, in the middleware, those
\* of the paths other than /login, /logout and /check-session; the
\* middleware lets the requests of these three paths through unchecked.
\* A checked request is accepted only if, besides, its x-device-id is the
\* device of that session.
C33_CheckedStaleTokenRefused ==
    [][(checked' # checked /\ SessionChecked(checked')) =>
          /\ Superseded(login_history, checked'.token) =>
                checked'.res = "forceLogout"
          /\ Accepted(checked') => OfLatestSession(login_history, checked')]_vars

\* The middleware has refused, with forceLogout, a request of the device
\* of an earlier session that carried that session's token: it compared
\* the request with a later session, of another device.
C33_Witness ==
    /\ checked.op = "validateSession"
    /\ checked.path \notin excludedPaths
    /\ checked.res = "forceLogout"
    /\ checked.deviceId = checked.token.deviceId
    /\ checked.latest > checked.token.sessionId
    /\ login_history[checked.latest].device_id # checked.token.deviceId

====
